---- MODULE Spec2Model ----
(***************************************************************************)
(* A model of the TCSS460 phase-2 HTTP service: the login route            *)
(* (src/src/routes/auth/login.ts) and the closed message routes            *)
(* (src/unnamed/part_000, mounted by src/src/routes/closed/index.ts):      *)
(* offset pagination, cursor pagination, create and delete by name over    *)
(* the Demo table.                                                         *)
(*                                                                         *)
(* A request is one atomic action: its middleware chain, its store         *)
(* queries and the response.  The outcome of the last request is kept in   *)
(* `last` together with the store it started from, so that every          *)
(* statement about a request is a statement about a reachable state.       *)
(***************************************************************************)
EXTENDS Integers, Sequences, FiniteSets, TLC

VARIABLES
    store,      \* the Demo table: a sequence of rows in ascending demoid order
    nextId,     \* the next value of the DemoID serial
    firstId,    \* the value of the serial when the service started
    last,       \* the request being answered: its input, its responses, the store before
    prev,       \* what the request before it did to the store
    walk        \* a client walking the cursor endpoint from cursor = 0

vars == <<store, nextId, firstId, last, prev, walk>>

(***************************************************************************)
(* Bounds of the model.                                                    *)
(***************************************************************************)
\* stores of 0..MaxSmall rows, and of DefaultLimit - 1 and DefaultLimit rows
MaxSmall == 2
\* at most this many INSERTs draw a value from the serial in one behaviour
MaxCreates == 2
\* numeric limit, offset and cursor inputs range over -1 .. MaxQuery
MaxQuery == 2

(***************************************************************************)
(* Program constants.                                                      *)
(***************************************************************************)
DefaultLimit == 10
DefaultOffset == 0
DefaultCursor == 0
MinPriority == 1
MaxPriority == 3
TokenDays == 14

(***************************************************************************)
(* JSON / query-string values as the handlers see them.  A number is kept  *)
(* in tenths so that a fractional input (3.5) is a value of the model.     *)
(***************************************************************************)
Undefined == [kind |-> "undefined", str |-> "", tenths |-> 0]
Str(s) == [kind |-> "string", str |-> s, tenths |-> 0]
Num(t) == [kind |-> "number", str |-> "", tenths |-> t]
Whole(n) == Num(10 * n)

\* validationFunctions.isStringProvided: a non-empty string
isStringProvided(v) == v.kind = "string" /\ v.str # ""

\* validationFunctions.isNumberProvided: a number or a numeric string
isNumberProvided(v) == v.kind = "number"

\* the unary plus of `+request.query.limit` on a whole-valued numeric input
ToNumber(v) == v.tenths \div 10

\* parseInt: the integer part, truncated toward zero
parseInt(v) == IF v.tenths >= 0 THEN v.tenths \div 10 ELSE -((-v.tenths) \div 10)

\* whether a numeric input is a whole number
IsWhole(v) == v.tenths % 10 = 0

(***************************************************************************)
(* The Demo table (DemoID serial, Name unique, Message, Priority) and the  *)
(* SQL statements the message routes send to it.                           *)
(***************************************************************************)
Min(a, b) == IF a <= b THEN a ELSE b

DemoIds(S) == {r.demoid : r \in S}
DemoNames(S) == {r.name : r \in S}

\* ORDER BY DemoID
RECURSIVE OrderByDemoId(_)
OrderByDemoId(S) ==
    IF S = {} THEN <<>>
    ELSE LET first == CHOOSE r \in S : \A q \in S : r.demoid <= q.demoid
         IN  <<first>> \o OrderByDemoId(S \ {first})

\* LIMIT n
Limit(rows, n) == SubSeq(rows, 1, Min(n, Len(rows)))

\* OFFSET n
Offset(rows, n) == IF n >= Len(rows) THEN <<>> ELSE SubSeq(rows, n + 1, Len(rows))

\* SELECT name, message, priority
SelectPublic(rows) ==
    [i \in 1..Len(rows) |->
        [name |-> rows[i].name, message |-> rows[i].message, priority |-> rows[i].priority]]

\* SELECT name, message, priority FROM Demo ORDER BY DemoID LIMIT $1 OFFSET $2
OffsetQuery(S, limit, offset) ==
    SelectPublic(Limit(Offset(OrderByDemoId(S), offset), limit))

\* a variant whose WHERE clause is DemoID >= $2
CursorQueryInclusive(S, limit, cursor) ==
    Limit(OrderByDemoId({r \in S : r.demoid >= cursor}), limit)

\* SELECT name, message, priority, DemoID FROM Demo WHERE DemoID > $2 ORDER BY DemoID LIMIT $1
CursorQuery(S, limit, cursor) ==
    Limit(OrderByDemoId({r \in S : r.demoid > cursor}), limit)

\* SELECT count(*) AS exact_count FROM demo
CountQuery(S) == Cardinality(S)

\* DELETE FROM Demo WHERE name = $1 RETURNING *
DeleteQuery(S, name) == OrderByDemoId({r \in S : r.name = name})

\* The store's errors, as the pg driver reports them: the text of `detail` is
\* kept as its words, so that endsWith('exists.') is a test of the last word.
UniqueViolation(name) ==
    [code |-> "23505", detail |-> <<"Key", "(name)=(" \o name \o ")", "already", "exists.">>]
InvalidTextRepresentation == [code |-> "22P02", detail |-> <<>>]
ConnectionError == [code |-> "ECONNREFUSED", detail |-> <<>>]

\* INSERT INTO DEMO(Name, Message, Priority) VALUES ($1, $2, $3) RETURNING *
\* The integer column rejects a fractional priority; the serial is drawn
\* before the unique index on Name is checked, so a conflict leaves a gap.
InsertQuery(S, id, body) ==
    IF ~IsWhole(body.priority)
    THEN [ok |-> FALSE, error |-> InvalidTextRepresentation, drew |-> FALSE]
    ELSE IF body.name.str \in DemoNames(S)
    THEN [ok |-> FALSE, error |-> UniqueViolation(body.name.str), drew |-> TRUE]
    ELSE [ok |-> TRUE, drew |-> TRUE,
          row |-> [demoid |-> id, name |-> body.name.str,
                   message |-> body.message.str,
                   priority |-> ToNumber(body.priority)]]

(***************************************************************************)
(* Responses.  `sent` is the sequence of responses a request produced.     *)
(***************************************************************************)
Response(status, body) == [status |-> status, body |-> body]
Message(text) == [message |-> text]

ServerError == Response(500, Message("server error - contact support"))

\* An async handler that throws leaves the request to the framework: the
\* rejection is unhandled and the request gets no response (Express 4), or it
\* is forwarded to the default error handler (Express 5).
FrameworkError == Response(500, [page |-> "Internal Server Error"])
Uncaught == {<<>>, <<FrameworkError>>}

(***************************************************************************)
(* src/unnamed/part_000: the message router.                               *)
(***************************************************************************)
\* const format = (resultRow) => ({...resultRow, formatted: `{p} - [name] says: message`})
format(resultRow) ==
    [f \in DOMAIN resultRow \cup {"formatted"} |->
        IF f = "formatted"
        THEN "{" \o ToString(resultRow.priority) \o "} - [" \o resultRow.name
             \o "] says: " \o resultRow.message
        ELSE resultRow[f]]

\* a variant whose test is >= 0, so that limit=0 is passed on to the query
PageLimitAllowsZero(v) ==
    IF isNumberProvided(v) /\ ToNumber(v) >= 0 THEN ToNumber(v) ELSE DefaultLimit

\* isNumberProvided(q.limit) && +q.limit > 0 ? +q.limit : 10
PageLimit(v) == IF isNumberProvided(v) /\ ToNumber(v) > 0 THEN ToNumber(v) ELSE DefaultLimit

\* isNumberProvided(q.offset) && +q.offset >= 0 ? +q.offset : 0
PageOffset(v) == IF isNumberProvided(v) /\ ToNumber(v) >= 0 THEN ToNumber(v) ELSE DefaultOffset

\* isNumberProvided(q.cursor) && +q.cursor >= 0 ? +q.cursor : 0
PageCursor(v) == IF isNumberProvided(v) /\ ToNumber(v) >= 0 THEN ToNumber(v) ELSE DefaultCursor

\* response.send({entries: rows.map(format), pagination: {...}})
OffsetResponse(rows, count, limit, offset) ==
    Response(200,
        [entries |-> [i \in 1..Len(rows) |-> format(rows[i])],
         pagination |-> [totalRecords |-> count, limit |-> limit, offset |-> offset,
                         nextPage |-> limit + offset]])

\* a variant that leaves the internal id in the entry
StripNothing(row) == row

\* ({ demoid, ...rest }) => rest
StripDemoId(row) == [f \in DOMAIN row \ {"demoid"} |-> row[f]]

\* ids.reduce((max, id) => (id > max ? id : max)): no initial value, so the
\* first element starts the fold and an empty array throws a TypeError
RECURSIVE FoldMax(_, _, _)
FoldMax(ids, i, max) ==
    IF i > Len(ids) THEN max
    ELSE FoldMax(ids, i + 1, IF ids[i] > max THEN ids[i] ELSE max)

ReduceMax(ids) ==
    IF Len(ids) = 0 THEN [threw |-> TRUE, value |-> 0]
    ELSE [threw |-> FALSE, value |-> FoldMax(ids, 2, ids[1])]

\* the responses of the cursor handler once both queries have answered
CursorSent(rows, count, limit) ==
    LET max == ReduceMax([i \in 1..Len(rows) |-> rows[i].demoid])
    IN  IF max.threw THEN Uncaught
        ELSE {<<Response(200,
                 [entries |-> [i \in 1..Len(rows) |-> format(StripDemoId(rows[i]))],
                  pagination |-> [totalRecords |-> count, limit |-> limit,
                                  cursor |-> max.value]])>>}

\* first gate of POST /: name and message are provided
CreateHasStrings(body) == isStringProvided(body.name) /\ isStringProvided(body.message)

\* second gate of POST /: priority is a number with 1 <= parseInt(priority) <= 3
CreateHasPriority(body) ==
    /\ isNumberProvided(body.priority)
    /\ parseInt(body.priority) >= MinPriority
    /\ parseInt(body.priority) <= MaxPriority

MissingParameters ==
    Response(400, Message("Missing required information - please refer to documentation"))
InvalidPriority ==
    Response(400, Message("Invalid or missing Priority - please refer to documentation"))
NameExists == Response(400, Message("Name exists"))
\* a variant that answers a missing name with the status of a bad request
NameNotFoundAsBadRequest == Response(400, Message("Name not found"))


NameNotFound == Response(404, Message("Name not found"))

\* a variant that looks for 'exist' where the driver writes 'exists.'
DetailEndsWithExist(error) ==
    Len(error.detail) > 0 /\ error.detail[Len(error.detail)] = "exist"

\* error.detail && error.detail.endsWith('exists.')
DetailEndsWithExists(error) ==
    Len(error.detail) > 0 /\ error.detail[Len(error.detail)] = "exists."

\* the try/catch of the insert handler
InsertResponse(result) ==
    IF result.ok THEN Response(201, [entry |-> format(result.row)])
    ELSE IF DetailEndsWithExists(result.error) THEN NameExists
    ELSE ServerError

\* the try/catch of the delete handler
DeleteResponse(result) ==
    IF ~result.ok THEN ServerError
    ELSE IF Len(result.rows) = 1
    THEN Response(200, [entry |-> "Deleted: " \o format(result.rows[1]).formatted])
    ELSE NameNotFound

(***************************************************************************)
(* src/src/routes/auth/login.ts: the login route.                          *)
(***************************************************************************)
\* credentialingFunctions.generateHash: a deterministic function of the
\* password and the salt
generateHash(password, salt) == "sha256(" \o password \o salt \o ")"

\* Account_Credential INNER JOIN Account: two accounts with one credential
\* each, and one account that was left with two credential rows
AccountRows ==
    { [account_id |-> 1, email |-> "ann@uw.edu", firstname |-> "Ann",
       account_role |-> "Admin", salt |-> "s1", salted_hash |-> generateHash("pw1", "s1")],
      [account_id |-> 2, email |-> "bob@uw.edu", firstname |-> "Bob",
       account_role |-> "User", salt |-> "s2", salted_hash |-> generateHash("pw2", "s2")],
      [account_id |-> 3, email |-> "dup@uw.edu", firstname |-> "Dee",
       account_role |-> "User", salt |-> "s3", salted_hash |-> generateHash("pw1", "s3")],
      [account_id |-> 3, email |-> "dup@uw.edu", firstname |-> "Dee",
       account_role |-> "User", salt |-> "s4", salted_hash |-> generateHash("pw1", "s4")] }

RECURSIVE AsRows(_)
AsRows(S) ==
    IF S = {} THEN <<>>
    ELSE LET r == CHOOSE x \in S : TRUE IN <<r>> \o AsRows(S \ {r})

\* SELECT salted_hash, salt, account_id, email, firstname, ... WHERE Account.email = $1
LoginQuery(email) == AsRows({r \in AccountRows : r.email = email})

\* first gate of POST /login: email and password are provided
LoginHasStrings(body) == isStringProvided(body.email) /\ isStringProvided(body.password)

LoginMissingParameters == Response(400, Message("Missing required information"))

\* a variant that tells the caller the account does not exist
UserNotFoundLeaky == Response(404, Message("User not found"))

\* result.rowCount == 0
UserNotFound == Response(400, Message("Invalid Credentials"))

\* storedSaltedHash !== providedSaltedHash
CredentialsDidNotMatch == Response(400, Message("Invalid Credentials"))

\* jwt.sign({name, role, id}, key.secret, {expiresIn: '14 days'})
AccessToken(row) ==
    [payload |-> [name |-> row.firstname, role |-> row.account_role, id |-> row.account_id],
     expiresIn |-> TokenDays]

\* response.json({accessToken, user: {id, email, name, role: 'Admin'}})
LoginSuccess(row) ==
    Response(200,
        [accessToken |-> AccessToken(row),
         user |-> [id |-> row.account_id, email |-> row.email, name |-> row.firstname,
                   role |-> "Admin"]])

\* the .then() of the login query
LoginResponse(rows, password) ==
    IF Len(rows) = 0 THEN UserNotFound
    ELSE IF Len(rows) > 1 THEN ServerError
    ELSE IF rows[1].salted_hash = generateHash(password, rows[1].salt)
    THEN LoginSuccess(rows[1])
    ELSE CredentialsDidNotMatch

(***************************************************************************)
(* The requests the clients send.                                          *)
(***************************************************************************)
Names == {"A", "B"}
Messages == {"hi"}

\* query-string values of limit, offset and cursor
QueryValues == {Undefined, Str("abc")} \cup {Whole(n) : n \in -1..MaxQuery}

\* bodies of POST /: every mix of missing, empty and provided fields, with
\* priorities missing, non-numeric, below, inside, fractional and above
NameValues == {Undefined, Str("")} \cup {Str(n) : n \in Names}
MessageValues == {Undefined} \cup {Str(m) : m \in Messages}
PriorityValues == {Undefined, Str("high"), Whole(0), Whole(2), Whole(3), Num(35), Whole(4)}
CreateBodies == [name : NameValues, message : MessageValues, priority : PriorityValues]
ValidBodies ==
    {b \in CreateBodies : CreateHasStrings(b) /\ CreateHasPriority(b) /\ IsWhole(b.priority)}

\* bodies of POST /login
EmailValues ==
    {Undefined, Str("")} \cup
    {Str(e) : e \in {"ann@uw.edu", "bob@uw.edu", "dup@uw.edu", "eve@uw.edu"}}
PasswordValues == {Undefined, Str("")} \cup {Str(p) : p \in {"pw1", "pw2"}}
LoginBodies == [email : EmailValues, password : PasswordValues]

\* a store that already holds k rows when the service starts
SeedName(i) == "n" \o ToString(i)
Seed(k) ==
    {[demoid |-> i, name |-> SeedName(i), message |-> "m", priority |-> (i % MaxPriority) + 1]
        : i \in 1..k}
SeedSizes == (0..MaxSmall) \cup {DefaultLimit - 1, DefaultLimit}

DeleteNames == Names \cup {SeedName(1)}

NoRequest ==
    [op |-> "none", req |-> Undefined, fault |-> "none", sent |-> <<>>, before |-> {},
     queries |-> 0, ran |-> <<>>, rows |-> <<>>]

\* the row a request inserted or deleted, if it did
Nothing == [op |-> "none", rows |-> <<>>]
Effect(request) ==
    IF request.op \in {"create", "delete"} /\ Len(request.rows) > 0
    THEN [op |-> request.op, rows |-> request.rows]
    ELSE Nothing

Idle == [state |-> "idle", cursor |-> DefaultCursor, seen |-> <<>>, stable |-> {}]

Init ==
    /\ \E k \in SeedSizes : store = Seed(k) /\ nextId = k + 1 /\ firstId = k + 1
    /\ last = NoRequest
    /\ prev = Nothing
    /\ walk = Idle

(***************************************************************************)
(* GET /offset                                                             *)
(*                                                                         *)
(* The page query and the count query are two statements; here both read   *)
(* the same table, so totalRecords is never stale, and no property below   *)
(* speaks of totalRecords.  A fault of either query ends the handler.      *)
(***************************************************************************)
OffsetReq ==
    /\ last = NoRequest
    /\ \E q \in [limit : QueryValues, offset : QueryValues], fault \in {"none", "page", "count"} :
        LET limit == PageLimit(q.limit)
            offset == PageOffset(q.offset)
            rows == OffsetQuery(store, limit, offset)
            count == CountQuery(store)
        IN  \E sent \in (IF fault = "none"
                         THEN {<<OffsetResponse(rows, count, limit, offset)>>}
                         ELSE Uncaught) :
                /\ last' = [op |-> "offset", req |-> q, fault |-> fault, sent |-> sent,
                            before |-> store, queries |-> IF fault = "page" THEN 1 ELSE 2,
                            ran |-> <<"offset">>,
                            rows |-> IF fault = "page" THEN <<>> ELSE rows]
                /\ UNCHANGED <<store, nextId, firstId, prev, walk>>

(***************************************************************************)
(* GET /cursor                                                             *)
(***************************************************************************)
Cursor(q, fault) ==
    LET limit == PageLimit(q.limit)
        cursor == PageCursor(q.cursor)
        rows == CursorQuery(store, limit, cursor)
        count == CountQuery(store)
    IN  \E sent \in (IF fault = "none" THEN CursorSent(rows, count, limit) ELSE Uncaught) :
            /\ last' = [op |-> "cursor", req |-> q, fault |-> fault, sent |-> sent,
                        before |-> store, queries |-> IF fault = "page" THEN 1 ELSE 2,
                        ran |-> <<"cursor">>,
                        rows |-> IF fault = "page" THEN <<>> ELSE rows]
            /\ UNCHANGED <<store, nextId, firstId, prev>>

CursorReq ==
    /\ last = NoRequest
    /\ \E q \in [limit : QueryValues, cursor : QueryValues],
          fault \in {"none", "page", "count"} : Cursor(q, fault)
    /\ UNCHANGED walk

(***************************************************************************)
(* POST /: the two gates, then the insert handler                          *)
(***************************************************************************)
CreateRejected(body, sent, ran) ==
    /\ last' = [op |-> "create", req |-> body, fault |-> "none", sent |-> sent,
                before |-> store, queries |-> 0, ran |-> ran, rows |-> <<>>]
    /\ UNCHANGED <<store, nextId, firstId, prev, walk>>

CreateInsert(body, fault) ==
    LET result == IF fault = "none" THEN InsertQuery(store, nextId, body)
                  ELSE [ok |-> FALSE, error |-> ConnectionError, drew |-> FALSE]
    IN  /\ result.drew => nextId < firstId + MaxCreates
        /\ store' = IF result.ok THEN store \cup {result.row} ELSE store
        /\ nextId' = IF result.drew THEN nextId + 1 ELSE nextId
        /\ last' = [op |-> "create", req |-> body, fault |-> fault,
                    sent |-> <<InsertResponse(result)>>, before |-> store, queries |-> 1,
                    ran |-> <<"strings", "priority", "insert">>,
                    rows |-> IF result.ok THEN <<result.row>> ELSE <<>>]
        /\ UNCHANGED <<firstId, prev, walk>>

Create(bodies) ==
    /\ last = NoRequest
    /\ \E body \in bodies, fault \in {"none", "insert"} :
        IF ~CreateHasStrings(body)
        THEN fault = "none" /\ CreateRejected(body, <<MissingParameters>>, <<"strings">>)
        ELSE IF ~CreateHasPriority(body)
        THEN fault = "none"
             /\ CreateRejected(body, <<InvalidPriority>>, <<"strings", "priority">>)
        ELSE CreateInsert(body, fault)

CreateReq == Create(CreateBodies)

(***************************************************************************)
(* DELETE /:name                                                           *)
(***************************************************************************)
DeleteReq ==
    /\ last = NoRequest
    /\ \E name \in DeleteNames, fault \in {"none", "delete"} :
        LET result == IF fault = "none"
                      THEN [ok |-> TRUE, rows |-> DeleteQuery(store, name)]
                      ELSE [ok |-> FALSE, rows |-> <<>>]
            gone == {result.rows[i] : i \in 1..Len(result.rows)}
        IN  /\ store' = store \ gone
            /\ last' = [op |-> "delete", req |-> Str(name), fault |-> fault,
                        sent |-> <<DeleteResponse(result)>>, before |-> store, queries |-> 1,
                        ran |-> <<"delete">>, rows |-> result.rows]
            /\ walk' = [walk EXCEPT !.stable = @ \ DemoIds(gone)]
            /\ UNCHANGED <<nextId, firstId, prev>>

(***************************************************************************)
(* POST /login: the gate, then the query and its .then()/.catch()          *)
(***************************************************************************)
LoginReq ==
    /\ last = NoRequest
    /\ \E body \in LoginBodies, fault \in {"none", "query"} :
        LET rows == IF fault = "none" THEN LoginQuery(body.email.str) ELSE <<>>
        IN  IF ~LoginHasStrings(body)
            THEN /\ fault = "none"
                 /\ last' = [op |-> "login", req |-> body, fault |-> "none",
                             sent |-> <<LoginMissingParameters>>, before |-> store,
                             queries |-> 0, ran |-> <<"strings">>, rows |-> <<>>]
            ELSE last' = [op |-> "login", req |-> body, fault |-> fault,
                          sent |-> <<IF fault = "none"
                                     THEN LoginResponse(rows, body.password.str)
                                     ELSE ServerError>>,
                          before |-> store, queries |-> 1, ran |-> <<"strings", "login">>,
                          rows |-> rows]
    /\ UNCHANGED <<store, nextId, firstId, prev, walk>>

(***************************************************************************)
(* A client that walks GET /cursor from cursor = 0, passing each returned  *)
(* pagination.cursor to its next call, until a call brings no page.  A     *)
(* call that hits a store fault would be repeated with the same cursor and *)
(* is left out.                                                            *)
(***************************************************************************)
WalkLimits == {Undefined} \cup {Whole(n) : n \in 1..MaxQuery}

HasPage(sent) ==
    Len(sent) = 1 /\ sent[1].status = 200 /\ Len(sent[1].body.entries) > 0

WalkFetch ==
    /\ last = NoRequest
    /\ walk.state # "done"
    /\ \E limit \in WalkLimits : Cursor([limit |-> limit, cursor |-> Whole(walk.cursor)], "none")
    /\ walk' =
        LET stable == IF walk.state = "idle" THEN DemoIds(store) ELSE walk.stable
            rows == last'.rows
        IN  IF HasPage(last'.sent)
            THEN [state |-> "walking",
                  cursor |-> last'.sent[1].body.pagination.cursor,
                  seen |-> walk.seen \o [i \in 1..Len(rows) |-> rows[i].demoid],
                  stable |-> stable]
            ELSE [state |-> "done", cursor |-> walk.cursor, seen |-> walk.seen,
                  stable |-> stable]

CreateValidReq == Create(ValidBodies)

(***************************************************************************)
(* The response is flushed and the request/response cycle ends: the event  *)
(* loop takes the next request.                                            *)
(***************************************************************************)
EndRequest ==
    /\ last # NoRequest
    /\ last' = NoRequest
    /\ prev' = Effect(last)
    /\ UNCHANGED <<store, nextId, firstId, walk>>

Next == LoginReq \/ OffsetReq \/ CursorReq \/ CreateReq \/ DeleteReq \/ EndRequest

Spec == Init /\ [][Next]_vars

\* the walking client among concurrent creates and deletes
NextWalk == WalkFetch \/ CreateValidReq \/ DeleteReq \/ EndRequest

SpecWalk == Init /\ [][NextWalk]_vars

(***************************************************************************)
(* The properties.  Each is stated about `last`, the request being         *)
(* answered, `last.before`, the store it started from, and `prev`, the     *)
(* effect of the request before it.                                        *)
(***************************************************************************)
Answered == Len(last.sent) = 1
Status == last.sent[1].status
Body == last.sent[1].body
NoFault == last.fault = "none"

\* "{priority} - [name] says: message"
Formatted(priority, name, message) ==
    "{" \o ToString(priority) \o "} - [" \o name \o "] says: " \o message

\* the public shape of a record: no internal id
Entry(r) ==
    [name |-> r.name, message |-> r.message, priority |-> r.priority,
     formatted |-> Formatted(r.priority, r.name, r.message)]

NonEmptyString(v) == v.kind = "string" /\ v.str # ""

\* the limit, offset and cursor the documentation promises for an input
PromisedLimit(v) == IF v.kind = "number" /\ v.tenths > 0 THEN v.tenths \div 10 ELSE 10
PromisedStart(v) == IF v.kind = "number" /\ v.tenths >= 0 THEN v.tenths \div 10 ELSE 0

\* the number of records before r in ascending id order
Rank(r, S) == Cardinality({q \in S : q.demoid < r.demoid})

Matching(email) == {r \in AccountRows : r.email = email}

(* C1: a login with non-empty email and password whose email matches no    *)
(* account, or matches exactly one account whose recomputed salted hash    *)
(* differs from the stored one, gets one and the same response in both     *)
(* cases: status 400 with the body {message: 'Invalid Credentials'} and   *)
(* nothing else.                                                           *)
C1_InvalidCredentialsIdentical ==
    (/\ last.op = "login" /\ NoFault
     /\ NonEmptyString(last.req.email) /\ NonEmptyString(last.req.password)
     /\ \/ Matching(last.req.email.str) = {}
        \/ /\ Cardinality(Matching(last.req.email.str)) = 1
           /\ \A r \in Matching(last.req.email.str) :
                r.salted_hash # generateHash(last.req.password.str, r.salt))
    => last.sent = <<[status |-> 400, body |-> [message |-> "Invalid Credentials"]]>>

\* a known account given another account's password
C1_Witness ==
    /\ last.op = "login" /\ NoFault
    /\ last.req = [email |-> Str("ann@uw.edu"), password |-> Str("pw2")]
    /\ Cardinality(Matching("ann@uw.edu")) = 1
    /\ Answered /\ Status = 400

(* C2: every cursor request whose queries answer completes with a 200      *)
(* response: every returned row has id greater than the clamped cursor,    *)
(* rows are in ascending id order, at most limit of them, and              *)
(* pagination.cursor is the greatest returned id, or the input cursor      *)
(* when the page is empty.                                                 *)
C2_CursorPage ==
    (last.op = "cursor" /\ NoFault)
    => LET limit == PromisedLimit(last.req.limit)
           cursor == PromisedStart(last.req.cursor)
           rows == last.rows
       IN  /\ Answered /\ Status = 200
           /\ Len(rows) <= limit
           /\ \A i \in 1..Len(rows) : rows[i].demoid > cursor
           /\ \A i \in 1..Len(rows), j \in 1..Len(rows) :
                i < j => rows[i].demoid < rows[j].demoid
           /\ Body.entries = [i \in 1..Len(rows) |-> Entry(rows[i])]
           /\ Body.pagination.cursor =
                IF Len(rows) = 0 THEN cursor
                ELSE CHOOSE m \in {rows[i].demoid : i \in 1..Len(rows)} :
                        \A i \in 1..Len(rows) : rows[i].demoid <= m

C4_IdentityMatchesAccount ==
    (/\ last.op = "login" /\ NoFault
     /\ NonEmptyString(last.req.email) /\ NonEmptyString(last.req.password)
     /\ Cardinality(Matching(last.req.email.str)) = 1
     /\ \A r \in Matching(last.req.email.str) :
            r.salted_hash = generateHash(last.req.password.str, r.salt))
    => \A r \in Matching(last.req.email.str) :
        /\ Answered /\ Status = 200
        /\ Body.accessToken.payload =
                [name |-> r.firstname, role |-> r.account_role, id |-> r.account_id]
        /\ Body.user = [id |-> r.account_id, email |-> r.email, name |-> r.firstname,
                        role |-> r.account_role]

\* a create that the specification's validation lets through: name and
\* message are non-empty strings and priority is one of 1, 2, 3
ValidCreate ==
    /\ last.op = "create" /\ NoFault
    /\ NonEmptyString(last.req.name) /\ NonEmptyString(last.req.message)
    /\ last.req.priority.kind = "number"
    /\ last.req.priority.tenths \in {10, 20, 30}

(* C5: a valid create whose name is not in the store returns 201 with the  *)
(* formatted record and adds exactly that record; one whose name is in the *)
(* store returns 400 'Name exists' and leaves the store unchanged; the     *)
(* same name created twice in a row gives 201 then 400; no two records     *)
(* ever share a name.                                                      *)
C5_CreateUnique ==
    /\ (ValidCreate /\ last.req.name.str \notin DemoNames(last.before))
        => /\ Answered /\ Status = 201
           /\ Body.entry.name = last.req.name.str
           /\ Body.entry.message = last.req.message.str
           /\ Body.entry.priority = last.req.priority.tenths \div 10
           /\ Body.entry.formatted =
                Formatted(Body.entry.priority, Body.entry.name, Body.entry.message)
           /\ \E r \in store :
                /\ r.demoid \notin DemoIds(last.before)
                /\ Entry(r) = [f \in DOMAIN Body.entry \ {"demoid"} |-> Body.entry[f]]
                /\ store = last.before \cup {r}
    /\ (ValidCreate /\ last.req.name.str \in DemoNames(last.before))
        => /\ last.sent = <<[status |-> 400, body |-> [message |-> "Name exists"]]>>
           /\ store = last.before
    /\ (ValidCreate /\ prev.op = "create" /\ prev.rows[1].name = last.req.name.str)
        => (Answered /\ Status = 400)
    /\ \A r \in store, q \in store : r.name = q.name => r = q

\* the second of two creates of the same name
C5_Witness ==
    /\ ValidCreate /\ prev.op = "create" /\ prev.rows[1].name = last.req.name.str
    /\ Answered /\ Status = 400 /\ Cardinality(store) > 1

\* a cursor request from cursor=0 with the default limit, right after a create
CursorAfterCreate ==
    /\ prev.op = "create"
    /\ last.op = "cursor" /\ NoFault
    /\ last.req = [limit |-> Undefined, cursor |-> Whole(0)]

(* C6 as stated: for every store content, a create followed at once by a   *)
(* cursor request with cursor=0 and the default limit returns an entry     *)
(* with the created name, message, priority and formatted string and no    *)
(* id.                                                                     *)
C6_RoundTripAnyStore ==
    CursorAfterCreate
    => /\ Answered /\ Status = 200
       /\ \E i \in 1..Len(Body.entries) : Body.entries[i] = Entry(prev.rows[1])

(* C6 as amended: the same, when the store holds at most 10 records (the   *)
(* default limit) after the create.                                        *)
C6_RoundTripFirstPage ==
    (CursorAfterCreate /\ Cardinality(last.before) <= 10)
    => /\ Answered /\ Status = 200
       /\ \E i \in 1..Len(Body.entries) : Body.entries[i] = Entry(prev.rows[1])

\* the created record is the tenth and last entry of the first page
C6_Witness ==
    /\ CursorAfterCreate /\ Answered /\ Status = 200
    /\ Cardinality(last.before) = 10
    /\ prev.rows[1].priority = 2
    /\ Body.entries[10] =
        [name |-> "A", message |-> "hi", priority |-> 2, formatted |-> "{2} - [A] says: hi"]

(* C7: a store fault in any query of login, offset, cursor, create or      *)
(* delete is answered with exactly one response: status 500 with the       *)
(* generic message 'server error - contact support'.                       *)
C7_FaultsAnswered ==
    (last.op # "none" /\ ~NoFault)
    => last.sent =
        <<[status |-> 500, body |-> [message |-> "server error - contact support"]]>>

(* C8: a login whose email or password is not a non-empty string gets 400  *)
(* 'Missing required information'; a create gets 400 MissingParameters     *)
(* when name or message is missing, whatever the priority, and otherwise   *)
(* 400 InvalidPriority when priority is not a number in [1,3]; in each     *)
(* case one response is sent, no later gate or handler runs, no store      *)
(* query is issued and the store is unchanged.                             *)
C8_GatesBeforeStore ==
    /\ (last.op = "login"
        /\ ~(NonEmptyString(last.req.email) /\ NonEmptyString(last.req.password)))
        => /\ last.sent =
                <<[status |-> 400, body |-> [message |-> "Missing required information"]]>>
           /\ last.ran = <<"strings">> /\ last.queries = 0 /\ store = last.before
    /\ (last.op = "create"
        /\ ~(NonEmptyString(last.req.name) /\ NonEmptyString(last.req.message)))
        => /\ last.sent = <<[status |-> 400, body |-> [message |->
                "Missing required information - please refer to documentation"]]>>
           /\ last.ran = <<"strings">> /\ last.queries = 0 /\ store = last.before
    /\ (last.op = "create"
        /\ NonEmptyString(last.req.name) /\ NonEmptyString(last.req.message)
        /\ ~(last.req.priority.kind = "number"
             /\ last.req.priority.tenths >= 10 /\ last.req.priority.tenths <= 30))
        => /\ last.sent = <<[status |-> 400, body |-> [message |->
                "Invalid or missing Priority - please refer to documentation"]]>>
           /\ last.ran = <<"strings", "priority">>
           /\ last.queries = 0 /\ store = last.before

(* C9: deleting a name that is not in the store returns 404 'Name not      *)
(* found' and leaves the store unchanged, also right after a delete of     *)
(* the same name; deleting a name that is in the store returns 200 with    *)
(* 'Deleted: ' and the record's formatted string and removes exactly that  *)
(* record.                                                                 *)
C9_DeleteByName ==
    /\ (last.op = "delete" /\ NoFault /\ last.req.str \notin DemoNames(last.before))
        => /\ last.sent = <<[status |-> 404, body |-> [message |-> "Name not found"]]>>
           /\ store = last.before
    /\ (last.op = "delete" /\ NoFault /\ last.req.str \in DemoNames(last.before))
        => \E r \in last.before :
            /\ r.name = last.req.str
            /\ last.sent = <<[status |-> 200, body |-> [entry |->
                    "Deleted: " \o Formatted(r.priority, r.name, r.message)]]>>
            /\ store = last.before \ {r}
    /\ (last.op = "delete" /\ NoFault
        /\ prev.op = "delete" /\ prev.rows[1].name = last.req.str)
        => (Answered /\ Status = 404 /\ store = last.before)

\* the second of two deletes of the same name
C9_Witness ==
    /\ last.op = "delete" /\ NoFault
    /\ prev.op = "delete" /\ prev.rows[1].name = last.req.str
    /\ Answered /\ Status = 404

(* C10: while creates and deletes interleave with a walk of the cursor     *)
(* endpoint from cursor=0, the ids returned are strictly increasing over   *)
(* the whole walk (no record twice), and when the walk ends every record   *)
(* that was in the store from before its first call until its last call    *)
(* has been returned exactly once.                                         *)
C10_WalkReturnsEachOnce ==
    /\ \A i \in 1..Len(walk.seen), j \in 1..Len(walk.seen) :
            i < j => walk.seen[i] < walk.seen[j]
    /\ walk.state = "done"
        => \A id \in walk.stable :
            Cardinality({i \in 1..Len(walk.seen) : walk.seen[i] = id}) = 1

\* a finished walk of several pages, during which a record was created
\* and a record was deleted
C10_Witness ==
    /\ walk.state = "done"
    /\ Len(walk.seen) > 2
    /\ walk.stable # {}
    /\ \E id \in DemoIds(store) : id \notin walk.stable /\ id >= firstId
    /\ nextId = firstId + MaxCreates

====
